---- MODULE Spec2Model ----
(***************************************************************************)
(* A model of the grid library (src/grid/src/lib.rs): the Location         *)
(* coordinate type (cmp, distance) and the dense Grid<T> container (new,   *)
(* add, get, get_mut, width, height, iter / GridIter::next, neighbors,     *)
(* neighbors_all) together with print_grid.                                *)
(*                                                                         *)
(* A Location(x, y) is the tuple <<x, y>>: l[1] is field .0 (column) and   *)
(* l[2] is field .1 (row).  The storage g: Vec<Vec<T>> is a sequence of    *)
(* rows, so the Rust cell g[r][c] is g[r + 1][c + 1] here.  An Option is a *)
(* sequence of length 0 (None) or 1 (Some).  A panic (index out of bounds, *)
(* arithmetic overflow in a build with overflow checks) ends the program:  *)
(* panicked becomes TRUE and no operation is enabled any more.             *)
(***************************************************************************)
EXTENDS Integers, Sequences, FiniteSets

VARIABLES
    g,          \* Grid.g: the rows of the grid
    width,      \* Grid.width
    height,     \* Grid.height
    live,       \* a GridIter borrowing the grid is live
    cur,        \* GridIter.cur of that iterator (an Option<Location>)
    calls,      \* history: number of next() calls made on the live GridIter
    ret,        \* the last operation: [op, args, out]
    panicked,   \* the last operation panicked
    shadow      \* history: the value of the most recent write at each in-range Location

vars == <<g, width, height, live, cur, calls, ret, panicked, shadow>>

----------------------------------------------------------------------------
(* Bounds of the model. *)

\* Grids of 0..MaxDim columns and 0..MaxDim rows are built.
MaxDim == 3
\* At most MaxDirty cells of a grid hold a non-default value at any time.
MaxDirty == 2
\* isize and usize are IsizeBits wide (scaled down from the platform's 64).
IsizeBits == 4
\* u32 is U32Bits wide (scaled down from 32; narrower than usize, as on a 64-bit target).
U32Bits == 3

IsizeMin == -(2 ^ (IsizeBits - 1))
IsizeMax == (2 ^ (IsizeBits - 1)) - 1
UsizeMod == 2 ^ IsizeBits
U32Mod == 2 ^ U32Bits
Isize == IsizeMin .. IsizeMax

\* T::default() and the other values of T the model stores.
Default == "_"
Values == {Default, "A", "B"}

None == <<>>
Some(x) == <<x>>

\* What an operation yields: a value, or a panic.
Ok(x) == [ok |-> TRUE, out |-> x]
Panic == [ok |-> FALSE, out |-> <<>>]

Location(x, y) == <<x, y>>

\* `i as usize` for an isize i: two's complement reinterpretation.
AsUsize(i) == i % UsizeMod

\* usize -> isize `try_into().unwrap()`: panics above isize::MAX.
TryIntoIsize(u) == IF u > IsizeMax THEN Panic ELSE Ok(u)

\* isize addition a + b: exact when representable; otherwise a panic in a
\* build with overflow checks and a two's complement wrap in one without.
AddIsize(a, b, checks) ==
    LET s == a + b IN
    IF s \in Isize THEN Ok(s)
    ELSE IF checks THEN Panic
    ELSE Ok(((s - IsizeMin) % UsizeMod) + IsizeMin)

----------------------------------------------------------------------------
(* Location *)

Less == "Less"
Equal == "Equal"
Greater == "Greater"

\* isize::cmp
IsizeCmp(a, b) == IF a < b THEN Less ELSE IF a = b THEN Equal ELSE Greater

\* isize::abs_diff: the exact difference, as a usize.
AbsDiff(a, b) == IF a < b THEN b - a ELSE a - b

\* A faulty cmp: the derived ordering, by column (.0) and then by row (.1).
cmp_derived(self, other) ==
    LET o == IsizeCmp(self[1], other[1]) IN
    IF o = Equal THEN IsizeCmp(self[2], other[2]) ELSE o

\* impl Ord for Location: by row (.1), then by column (.0).
cmp(self, other) ==
    LET o == IsizeCmp(self[2], other[2]) IN
    IF o = Less THEN o
    ELSE IF o = Equal THEN IsizeCmp(self[1], other[1])
    ELSE o

\* impl PartialOrd for Location
partial_cmp(self, other) == Some(cmp(self, other))

\* derive(PartialEq) for Location: both fields equal.
eq(self, other) == self[1] = other[1] /\ self[2] = other[2]

\* Location::distance: the usize sum of the two abs_diff's (a panic or a
\* wrap when it exceeds usize::MAX), then `as u32` (truncation).
distance(self, other, checks) ==
    LET s == AbsDiff(self[1], other[1]) + AbsDiff(self[2], other[2]) IN
    IF s >= UsizeMod
    THEN IF checks THEN Panic ELSE Ok((s % UsizeMod) % U32Mod)
    ELSE Ok(s % U32Mod)

----------------------------------------------------------------------------
(* Grid<T> *)

\* Grid::new
new(x, y) ==
    [g |-> [r \in 1 .. y |-> [c \in 1 .. x |-> Default]], width |-> x, height |-> y]

\* Grid::width: the length of row 0, which must exist.
GridWidth(gr) == IF Len(gr) = 0 THEN Panic ELSE Ok(Len(gr[1]))

\* Grid::height
GridHeight(gr) == Ok(Len(gr))

\* Grid::get: g[l.1 as usize][l.0 as usize], bounds-checked row first.
get(gr, l) ==
    LET r == AsUsize(l[2])
        c == AsUsize(l[1])
    IN  IF r >= Len(gr) THEN Panic
        ELSE IF c >= Len(gr[r + 1]) THEN Panic
        ELSE Ok(gr[r + 1][c + 1])

\* A faulty add: the row index is dropped, so the store lands in row 0.
add_row0(gr, l, t) ==
    LET r == AsUsize(l[2])
        c == AsUsize(l[1])
    IN  IF r >= Len(gr) THEN Panic
        ELSE IF c >= Len(gr[r + 1]) THEN Panic
        ELSE Ok([gr EXCEPT ![1][c + 1] = t])

\* Grid::add: the storage after g[l.1 as usize][l.0 as usize] = t.
add(gr, l, t) ==
    LET r == AsUsize(l[2])
        c == AsUsize(l[1])
    IN  IF r >= Len(gr) THEN Panic
        ELSE IF c >= Len(gr[r + 1]) THEN Panic
        ELSE Ok([gr EXCEPT ![r + 1][c + 1] = t])

\* Grid::get_mut followed by the caller's store through the &mut T.
get_mut(gr, l, t) ==
    LET r == AsUsize(l[2])
        c == AsUsize(l[1])
    IN  IF r >= Len(gr) THEN Panic
        ELSE IF c >= Len(gr[r + 1]) THEN Panic
        ELSE Ok([gr EXCEPT ![r + 1][c + 1] = t])

\* Grid::iter: a fresh GridIter over the grid, cur = None.
iter == None

\* A faulty next: a fused iterator, whose cursor stays on the last cell once
\* the end is reached, so that every later call yields None too.
next_fused(gr, w, h, c) ==
    LET c0 == c[1][1] + 1
        wrapped == c0 >= w
        x == IF wrapped THEN 0 ELSE c0
        y == IF wrapped THEN c[1][2] + 1 ELSE c[1][2]
        newcur == IF c = None THEN Some(Location(0, 0))
                  ELSE IF y >= h THEN c ELSE Some(Location(x, y))
        atEnd == c # None /\ y >= h
    IN  [cur |-> newcur,
         item |-> IF atEnd THEN Ok(None)
                  ELSE IF get(gr, newcur[1]).ok
                       THEN Ok(Some(<<newcur[1], get(gr, newcur[1]).out>>))
                       ELSE Panic]

\* GridIter::next on cursor c over grid (gr, w, h): the new cursor and the
\* item.  The dimensions compared are the fields Grid.width / Grid.height;
\* the item's value comes from Grid::get, which may panic.
next(gr, w, h, c) ==
    LET advance ==
            LET c0 == c[1][1] + 1
                wrapped == c0 >= TryIntoIsize(w).out
                x == IF wrapped THEN 0 ELSE c0
                y == IF wrapped THEN c[1][2] + 1 ELSE c[1][2]
            IN  IF y >= TryIntoIsize(h).out THEN None ELSE Some(Location(x, y))
        newcur == IF c = None THEN Some(Location(0, 0)) ELSE advance
        item == IF newcur = None THEN Ok(None)
                ELSE IF get(gr, newcur[1]).ok
                     THEN Ok(Some(<<newcur[1], get(gr, newcur[1]).out>>))
                     ELSE Panic
    IN  IF c # None /\ (~TryIntoIsize(w).ok \/ ~TryIntoIsize(h).ok)
        THEN [cur |-> c, item |-> Panic]
        ELSE [cur |-> newcur, item |-> item]

\* The candidate offsets of neighbors_impl, in the order they are pushed.
Offsets(all) ==
    <<  <<1, 0>>, <<-1, 0>>, <<0, 1>>, <<0, -1>> >>
    \o (IF all THEN <<  <<1, 1>>, <<1, -1>>, <<-1, 1>>, <<-1, -1>> >> ELSE <<>>)

\* The `tests` vector of neighbors_impl: each candidate is (x + dx, y + dy)
\* in isize arithmetic.
Tests(l, all, checks) ==
    [i \in 1 .. Len(Offsets(all)) |->
        <<AddIsize(l[1], Offsets(all)[i][1], checks),
          AddIsize(l[2], Offsets(all)[i][2], checks)>>]

\* The loop of neighbors_impl over tests[i ..], n being the result so far.
\* The bounds test reads self.g[0] only once t.0 >= 0 && t.1 >= 0 holds.
RECURSIVE NeighborsLoop(_, _, _, _)
NeighborsLoop(gr, tests, i, n) ==
    IF i > Len(tests) THEN Ok(n)
    ELSE LET t == tests[i] IN
         IF t[1] >= 0 /\ t[2] >= 0
         THEN IF Len(gr) = 0 THEN Panic
              ELSE IF t[1] < Len(gr[1]) /\ t[2] < Len(gr)
                   THEN NeighborsLoop(gr, tests, i + 1,
                            Append(n, <<Location(t[1], t[2]), gr[t[2] + 1][t[1] + 1]>>))
                   ELSE NeighborsLoop(gr, tests, i + 1, n)
         ELSE NeighborsLoop(gr, tests, i + 1, n)

\* Grid::neighbors_impl
neighbors_impl(gr, l, all, checks) ==
    LET raw == Tests(l, all, checks) IN
    IF \E i \in 1 .. Len(raw) : ~raw[i][1].ok \/ ~raw[i][2].ok
    THEN Panic
    ELSE NeighborsLoop(gr, [i \in 1 .. Len(raw) |-> <<raw[i][1].out, raw[i][2].out>>], 1, <<>>)

\* Grid::neighbors
neighbors(gr, l, checks) == neighbors_impl(gr, l, FALSE, checks)

\* Grid::neighbors_all
neighbors_all(gr, l, checks) == neighbors_impl(gr, l, TRUE, checks)

----------------------------------------------------------------------------
(* print_grid *)

\* The text of a cell: T's Display.  The model's values are their own text,
\* as for T = char.
Display(v) == v

\* println!()
NewLine == "\n"

\* The `for g in grid` loop of print_grid with the iterator at cursor c and
\* `printed` written so far; fuel bounds the unrolling (one more than the
\* number of cells suffices).
RECURSIVE PrintLoop(_, _, _, _, _, _)
PrintLoop(gr, w, h, c, printed, fuel) ==
    LET step == next(gr, w, h, c) IN
    IF ~step.item.ok THEN Panic
    ELSE IF step.item.out = None THEN Ok(printed)
    ELSE IF fuel = 0 THEN Ok(printed)
    ELSE LET item == step.item.out[1]
             cell == Append(printed, Display(item[2]))
         IN  IF ~GridWidth(gr).ok THEN Panic
             ELSE IF item[1][1] = GridWidth(gr).out - 1
                  THEN PrintLoop(gr, w, h, step.cur, Append(cell, NewLine), fuel - 1)
                  ELSE PrintLoop(gr, w, h, step.cur, cell, fuel - 1)

\* print_grid: the loop, then the final println!().
print_grid(gr, w, h) ==
    LET body == PrintLoop(gr, w, h, iter, <<>>, w * h + 1) IN
    IF body.ok THEN Ok(Append(body.out, NewLine)) ELSE Panic

----------------------------------------------------------------------------
(* The program: a grid is built, then written and queried. *)

\* The in-range Locations of an x-by-y grid.
InRange(x, y) == {Location(c, r) : c \in 0 .. x - 1, r \in 0 .. y - 1}

\* The number of cells holding a non-default value.
Dirty(gr) ==
    Cardinality({rc \in (1 .. Len(gr)) \X (1 .. MaxDim + 1) :
                    rc[2] <= Len(gr[rc[1]]) /\ gr[rc[1]][rc[2]] # Default})

\* The Locations handed to add, get and get_mut: the grid and one ring around it.
ArgLocs == {Location(c, r) : c \in -1 .. MaxDim, r \in -1 .. MaxDim}

\* The Locations handed to the neighbor queries: also the extreme coordinates.
QueryCoords == (-1 .. MaxDim) \cup {IsizeMin, IsizeMax}
QueryLocs == {Location(c, r) : c \in QueryCoords, r \in QueryCoords}

\* The Locations handed to cmp and distance.
LocCoords == {IsizeMin, -1, 0, 1, 2 ^ (U32Bits - 1), IsizeMax}
Locs == {Location(c, r) : c \in LocCoords, r \in LocCoords}

\* A GridIter is driven through two full rounds of the grid.
MaxCalls == 2 * (width * height + 1)

Init ==
    \E x \in 0 .. MaxDim, y \in 0 .. MaxDim :
        /\ g = new(x, y).g
        /\ width = new(x, y).width
        /\ height = new(x, y).height
        /\ live = FALSE
        /\ cur = None
        /\ calls = 0
        /\ ret = [op |-> "new", args |-> <<x, y>>, out |-> <<>>]
        /\ panicked = FALSE
        /\ shadow = [l \in InRange(x, y) |-> Default]

\* The read-only calls.  They leave the grid and the iterator as they found
\* them, so the model takes one as the last step of a run: every state the
\* writes and iterations reach is queried, and a query's result state is a leaf.
ReadOps == {"get", "width", "height", "neighbors", "neighbors_all", "print_grid"}
Running == ~panicked /\ ret.op \notin ReadOps

\* A store into the grid (add, or get_mut and a store through it); no
\* GridIter may be live, since it borrows the grid.
Store(op, r, l, t) ==
    /\ Running
    /\ ~live
    /\ ret' = [op |-> op, args |-> <<>>, out |-> <<>>]
    /\ panicked' = ~r.ok
    /\ IF r.ok
       THEN /\ Dirty(r.out) <= MaxDirty
            /\ g' = r.out
            /\ shadow' = [shadow EXCEPT ![l] = t]
       ELSE UNCHANGED <<g, shadow>>
    /\ UNCHANGED <<width, height, live, cur, calls>>

\* grid.add(&l, t)
Add(l, t) == Store("add", add(g, l, t), l, t)

\* *grid.get_mut(&l) = t
GetMut(l, t) == Store("get_mut", get_mut(g, l, t), l, t)

\* A read-only call on the grid, made between iterations.
Query(op, args, r) ==
    /\ Running
    /\ ~live
    /\ ret' = [op |-> op, args |-> args, out |-> r.out]
    /\ panicked' = ~r.ok
    /\ UNCHANGED <<g, width, height, live, cur, calls, shadow>>

\* grid.get(&l)
Get(l) == Query("get", <<l>>, IF get(g, l).ok THEN Ok(<<get(g, l).out>>) ELSE Panic)

\* grid.width()
Width == Query("width", <<>>, IF GridWidth(g).ok THEN Ok(<<GridWidth(g).out>>) ELSE Panic)

\* grid.height()
Height == Query("height", <<>>, Ok(<<GridHeight(g).out>>))

\* grid.neighbors(&l), in a build with or without overflow checks
Neighbors(l, checks) == Query("neighbors", <<l, checks>>, neighbors(g, l, checks))

\* grid.neighbors_all(&l), in a build with or without overflow checks
NeighborsAll(l, checks) == Query("neighbors_all", <<l, checks>>, neighbors_all(g, l, checks))

\* print_grid(&grid)
PrintGrid == Query("print_grid", <<>>, print_grid(g, width, height))

\* grid.iter() (or (&grid).into_iter())
Iter ==
    /\ Running
    /\ ~live
    /\ live' = TRUE
    /\ cur' = iter
    /\ calls' = 0
    /\ ret' = [op |-> "iter", args |-> <<>>, out |-> <<>>]
    /\ UNCHANGED <<g, width, height, panicked, shadow>>

\* it.next() on the live GridIter
IterNext ==
    /\ Running
    /\ live
    /\ calls < MaxCalls
    /\ LET step == next(g, width, height, cur) IN
        /\ cur' = step.cur
        /\ ret' = [op |-> "next", args |-> <<>>, out |-> step.item.out]
        /\ panicked' = ~step.item.ok
    /\ calls' = calls + 1
    /\ UNCHANGED <<g, width, height, live, shadow>>

\* The GridIter goes out of scope.
IterDrop ==
    /\ Running
    /\ live
    /\ live' = FALSE
    /\ cur' = None
    /\ calls' = 0
    /\ ret' = [op |-> "drop", args |-> <<>>, out |-> <<>>]
    /\ UNCHANGED <<g, width, height, panicked, shadow>>

Next ==
    \/ \E l \in ArgLocs, t \in Values : Add(l, t)
    \/ \E l \in ArgLocs, t \in Values : GetMut(l, t)
    \/ \E l \in ArgLocs : Get(l)
    \/ Width
    \/ Height
    \/ \E l \in QueryLocs, checks \in BOOLEAN : Neighbors(l, checks)
    \/ \E l \in QueryLocs, checks \in BOOLEAN : NeighborsAll(l, checks)
    \/ PrintGrid
    \/ Iter
    \/ IterNext
    \/ IterDrop

Spec == Init /\ [][Next]_vars

\* The program restricted to writes and point reads.
StoreNext ==
    \/ \E l \in ArgLocs, t \in Values : Add(l, t)
    \/ \E l \in ArgLocs, t \in Values : GetMut(l, t)
    \/ \E l \in ArgLocs : Get(l)
    \/ Width
    \/ Height

StoreSpec == Init /\ [][StoreNext]_vars

\* The program restricted to writes and iteration.
IterStep ==
    \/ \E l \in ArgLocs, t \in Values : Add(l, t)
    \/ \E l \in ArgLocs, t \in Values : GetMut(l, t)
    \/ Iter
    \/ IterNext
    \/ IterDrop

IterSpec == Init /\ [][IterStep]_vars

----------------------------------------------------------------------------
(* Location's operations, applied to pairs of Locations. *)

\* Two Locations are drawn; no grid is involved.
LocInit ==
    \E a \in Locs, b \in Locs :
        /\ g = new(0, 0).g
        /\ width = new(0, 0).width
        /\ height = new(0, 0).height
        /\ live = FALSE
        /\ cur = None
        /\ calls = 0
        /\ ret = [op |-> "locations", args |-> <<a, b>>, out |-> <<>>]
        /\ panicked = FALSE
        /\ shadow = <<>>

\* a.cmp(&b)
Cmp ==
    /\ ret.op = "locations"
    /\ ret' = [ret EXCEPT !.op = "cmp", !.out = <<cmp(ret.args[1], ret.args[2])>>]
    /\ UNCHANGED <<g, width, height, live, cur, calls, panicked, shadow>>

\* a.distance(&b), in a build with or without overflow checks
Distance(checks) ==
    /\ ret.op = "locations"
    /\ LET d == distance(ret.args[1], ret.args[2], checks) IN
        /\ ret' = [ret EXCEPT !.op = "distance",
                              !.args = Append(ret.args, checks),
                              !.out = IF d.ok THEN <<d.out>> ELSE <<>>]
        /\ panicked' = ~d.ok
    /\ UNCHANGED <<g, width, height, live, cur, calls, shadow>>

LocNext ==
    \/ Cmp
    \/ \E checks \in BOOLEAN : Distance(checks)

LocSpec == LocInit /\ [][LocNext]_vars

----------------------------------------------------------------------------
(* Reference definitions the properties are stated with. *)

\* The k-th Location (from 0) of a grid of width w in row-major order.
RowMajor(k, w) == Location(k % w, k \div w)

\* Reading order: by row, then by column.
RowMajorLess(a, b) == a[2] < b[2] \/ (a[2] = b[2] /\ a[1] < b[1])

Reverse(o) == IF o = Less THEN Greater ELSE IF o = Greater THEN Less ELSE Equal

Abs(n) == IF n < 0 THEN -n ELSE n

Manhattan(a, b) == Abs(a[1] - b[1]) + Abs(a[2] - b[2])

InBounds(c) == 0 <= c[1] /\ c[1] < width /\ 0 <= c[2] /\ c[2] < height

OrthogonalOffsets == <<  <<1, 0>>, <<-1, 0>>, <<0, 1>>, <<0, -1>> >>
DiagonalOffsets == <<  <<1, 1>>, <<1, -1>>, <<-1, 1>>, <<-1, -1>> >>

\* The in-bounds members of l + offs, in order, each with its cell's value.
Expected(l, offs) ==
    LET cand == [i \in 1 .. Len(offs) |-> Location(l[1] + offs[i][1], l[2] + offs[i][2])]
        kept == SelectSeq(cand, InBounds)
    IN  [i \in 1 .. Len(kept) |-> <<kept[i], shadow[kept[i]]>>]

\* The text of cells k .. w*h - 1 in row-major order, a line break after
\* each cell in column w - 1.
RECURSIVE ExpectedText(_)
ExpectedText(k) ==
    IF k >= width * height THEN <<>>
    ELSE <<shadow[RowMajor(k, width)]>>
         \o (IF RowMajor(k, width)[1] = width - 1 THEN <<"\n">> ELSE <<>>)
         \o ExpectedText(k + 1)

\* The grid has a cell.
NonEmpty == width >= 1 /\ height >= 1

----------------------------------------------------------------------------
(* The properties. *)

\* C1: get(l) for every in-range Location l is the value of the most recent
\* write at l (add, or a store through get_mut), or T's default if there was
\* none; so a write at one Location leaves every other Location's value alone.
C1_GetReturnsLastAdd ==
    /\ \A l \in InRange(width, height) : get(g, l) = Ok(shadow[l])
    /\ (ret.op = "get" /\ ret.args[1] \in InRange(width, height)) =>
            ~panicked /\ ret.out = <<shadow[ret.args[1]]>>

\* C1 witness: get returned the value added at its Location while another
\* Location holds a different added value.
C1_Witness ==
    /\ ret.op = "get" /\ ~panicked /\ ret.out = <<"B">>
    /\ \E l \in InRange(width, height) : l # ret.args[1] /\ shadow[l] = "A"

\* C2: the first X*Y calls of next() on a fresh iter() of a grid built with
\* new(X, Y) yield the Locations in row-major order, each with its cell's
\* value, and call X*Y + 1 yields None; no call panics.
C2_IterRowMajor ==
    (ret.op = "next" /\ calls <= width * height + 1) =>
        /\ ~panicked
        /\ IF calls <= width * height
           THEN ret.out = Some(<<RowMajor(calls - 1, width),
                                 shadow[RowMajor(calls - 1, width)]>>)
           ELSE ret.out = None

\* C3: on a grid built with width = 0 or height = 0, the first next() on a
\* fresh iter() returns None, and neighbors and neighbors_all return an empty
\* sequence, none of them panicking.
C3_EmptyGridLegal ==
    (width = 0 \/ height = 0) =>
        /\ (ret.op = "next" /\ calls = 1) => (~panicked /\ ret.out = None)
        /\ ret.op \in {"neighbors", "neighbors_all"} => (~panicked /\ ret.out = <<>>)

\* C4: neighbors(loc) never panics and returns the in-bounds members of
\* [(x+1,y), (x-1,y), (x,y+1), (x,y-1)], in that order, each with its cell's value.
C4_NeighborsOrthogonal ==
    ret.op = "neighbors" =>
        ~panicked /\ ret.out = Expected(ret.args[1], OrthogonalOffsets)

\* C5: neighbors_all(loc) never panics and returns what neighbors(loc) returns
\* followed by the in-bounds members of [(x+1,y+1), (x+1,y-1), (x-1,y+1),
\* (x-1,y-1)], in that order: 8 for an interior cell, 3 for a corner of a grid
\* at least 2x2, none for (0,0) of a 1x1 grid.
C5_NeighborsAll ==
    ret.op = "neighbors_all" =>
        /\ ~panicked
        /\ ret.out = Expected(ret.args[1], OrthogonalOffsets)
                        \o Expected(ret.args[1], DiagonalOffsets)
        /\ Len(ret.out) <= 8
        /\ (width = 1 /\ height = 1 /\ ret.args[1] = Location(0, 0)) => ret.out = <<>>

\* C6: distance(a, b) never panics and returns exactly |a.col - b.col| +
\* |a.row - b.row|, so it is 0 exactly when a = b.
C6_DistanceExact ==
    ret.op = "distance" =>
        /\ ~panicked
        /\ ret.out = <<Manhattan(ret.args[1], ret.args[2])>>
        /\ (ret.out = <<0>>) <=> (ret.args[1] = ret.args[2])

\* C7: cmp is row-major (Less exactly when the row is smaller, or the rows
\* are equal and the column is smaller), Equal exactly when both fields are
\* equal (the derived equality), and a total order: reversing the operands
\* reverses the result, and it is transitive.
C7_OrderRowMajor ==
    ret.op = "cmp" =>
        LET a == ret.args[1]
            b == ret.args[2]
            o == ret.out[1]
        IN  /\ (o = Less) <=> RowMajorLess(a, b)
            /\ (o = Greater) <=> RowMajorLess(b, a)
            /\ (o = Equal) <=> (a[1] = b[1] /\ a[2] = b[2])
            /\ (o = Equal) <=> eq(a, b)
            /\ partial_cmp(a, b) = Some(o)
            /\ cmp(b, a) = Reverse(o)
            /\ \A c \in Locs :
                (o # Greater /\ cmp(b, c) # Greater) => cmp(a, c) # Greater

\* C7 witness: a is to the right of b but on a higher row, and compares Less.
C7_Witness ==
    /\ ret.op = "cmp"
    /\ ret.args[1][1] > ret.args[2][1]
    /\ ret.args[1][2] < ret.args[2][2]
    /\ ret.out = <<Less>>

\* C8: width() returns the construction-time width and height() the
\* construction-time height without panicking, and the storage keeps exactly
\* height rows of exactly width cells.
C8_DimensionsKept ==
    /\ Len(g) = height
    /\ \A r \in 1 .. Len(g) : Len(g[r]) = width
    /\ ret.op = "width" => (~panicked /\ ret.out = <<width>>)
    /\ ret.op = "height" => (~panicked /\ ret.out = <<height>>)

\* C9: print_grid does not panic and emits the cells' text in row-major
\* order, a line break after each cell in column W - 1, and one more line
\* break at the end.
C9_PrintGrid ==
    ret.op = "print_grid" =>
        ~panicked /\ ret.out = ExpectedText(0) \o <<"\n">>

\* C10: on a grid with width >= 1 and height >= 1, the n-th next() on a
\* GridIter yields item (n - 1) mod (width*height + 1) of the sequence "the
\* cells in row-major order, then None"; the call that yields None leaves
\* the cursor as iter() made it.
C10_IterNotFused ==
    (ret.op = "next" /\ NonEmpty) =>
        LET k == (calls - 1) % (width * height + 1) IN
        /\ ~panicked
        /\ IF k < width * height
           THEN /\ ret.out = Some(<<RowMajor(k, width), shadow[RowMajor(k, width)]>>)
                /\ cur = Some(RowMajor(k, width))
           ELSE /\ ret.out = None
                /\ cur = iter

\* C10 witness: the call after the one that returned None yields
\* Location(0,0) again, on a grid of more than one row and column.
C10_Witness ==
    /\ ret.op = "next"
    /\ width >= 2 /\ height >= 2
    /\ calls = width * height + 2
    /\ ret.out = Some(<<Location(0, 0), "A">>)

----------------------------------------------------------------------------
(* What the code does keep of C2, C3, C4, C5, C8 and C9: the same statements *)
(* on grids that have a cell and, for the neighbor queries, at Locations     *)
(* whose coordinates are not the extreme values of isize or in a build       *)
(* without overflow checks.                                                 *)

NotExtreme(l) ==
    /\ IsizeMin < l[1] /\ l[1] < IsizeMax
    /\ IsizeMin < l[2] /\ l[2] < IsizeMax

NonEmptyGridBehaviour ==
    NonEmpty =>
        /\ C2_IterRowMajor
        /\ C8_DimensionsKept
        /\ C9_PrintGrid
        /\ (ret.op \in {"neighbors", "neighbors_all"}
                /\ (NotExtreme(ret.args[1]) \/ ~ret.args[2])) =>
                (C4_NeighborsOrthogonal /\ C5_NeighborsAll)
        /\ (ret.op \in {"neighbors", "neighbors_all"}
                /\ ~NotExtreme(ret.args[1]) /\ ret.args[2]) => panicked

\* An interior cell has 4 and 8 neighbors, a corner of a grid at least 2x2
\* has 2 and 3.
NeighborCounts ==
    (NonEmpty /\ ~panicked /\ ret.op \in {"neighbors", "neighbors_all"}) =>
        LET l == ret.args[1]
            n == IF ret.op = "neighbors" THEN 1 ELSE 2
        IN  /\ (0 < l[1] /\ l[1] < width - 1 /\ 0 < l[2] /\ l[2] < height - 1) =>
                    Len(ret.out) = 4 * n
            /\ (width >= 2 /\ height >= 2 /\ l = Location(0, 0)) =>
                    Len(ret.out) = n + 1

\* An empty grid of height 0 panics in width() and in every neighbor query
\* with a candidate of non-negative coordinates; every empty grid panics in
\* the first next().
EmptyGridPanics ==
    (width = 0 \/ height = 0) =>
        /\ (ret.op = "next" /\ calls = 1) => panicked
        /\ ret.op = "print_grid" => panicked
        /\ (ret.op = "width" /\ height = 0) => panicked
        /\ (ret.op = "neighbors" /\ ret.args[1] = Location(0, 0)) =>
                (panicked <=> height = 0)

====
